---------------------------- MODULE Spec2Model ----------------------------
(***************************************************************************)
(* The recursive-descent parser of the echo scripting language             *)
(* (parser/src/parse.rs): the top-level line loop of Parser::parse and the *)
(* keyword chain load -> goto -> print -> printnl -> insert -> change ->   *)
(* delete -> speed -> select -> find -> linepause -> wait.                 *)
(***************************************************************************)
EXTENDS Integers, Sequences, FiniteSets

(***************************************************************************)
(* Machine integers.  Token::Int carries a signed 64-bit value; it is kept *)
(* as sign and magnitude, the magnitude as four 16-bit limbs, most         *)
(* significant first, so that the `as` casts of the parser keep their real *)
(* widths (2^64, 2^32, 2^16).                                              *)
(***************************************************************************)
Limb == 65536

HalfLimb == 32768

Z(neg, m3, m2, m1, m0) == [neg |-> neg, mag |-> <<m3, m2, m1, m0>>]

ZeroInt == Z(FALSE, 0, 0, 0, 0)

\* the 64-bit two's complement pattern of an i64 value, as four limbs
TwosComplement64(n) ==
    IF ~n.neg THEN n.mag
    ELSE LET m  == n.mag
             b0 == IF m[4] > 0 THEN 1 ELSE 0
             b1 == IF m[3] + b0 > 0 THEN 1 ELSE 0
             b2 == IF m[2] + b1 > 0 THEN 1 ELSE 0
         IN  << (0 - m[1] - b2) % Limb, (0 - m[2] - b1) % Limb,
                (0 - m[3] - b0) % Limb, (0 - m[4]) % Limb >>

AsU64Saturating(n) == IF n.neg THEN <<0, 0, 0, 0>> ELSE n.mag

\* `x as u64` on an i64 : the same 64 bits read as an unsigned value
AsU64(n) == TwosComplement64(n)

\* `x as u16` on an i64 : the low 16 bits
AsU16(n) == TwosComplement64(n)[4]

AsI32Saturating(n) ==
    LET big == n.mag[1] + n.mag[2] > 0 \/ n.mag[3] >= HalfLimb
    IN  IF n.neg
        THEN IF big THEN (0 - HalfLimb) * Limb
             ELSE 0 - (n.mag[3] * Limb + n.mag[4])
        ELSE IF big THEN (HalfLimb - 1) * Limb + (Limb - 1)
             ELSE n.mag[3] * Limb + n.mag[4]

\* `x as i32` on an i64 : the low 32 bits read as a signed value
AsI32(n) ==
    LET t == TwosComplement64(n)
    IN  IF t[3] >= HalfLimb THEN (t[3] - Limb) * Limb + t[4]
        ELSE t[3] * Limb + t[4]

(***************************************************************************)
(* Tokens.  A token is its kind k with the payload of the literal kinds:   *)
(* s for Str and Ident, n for Int.                                         *)
(***************************************************************************)
Tok(k) == [k |-> k, s |-> "", n |-> ZeroInt]

StrTok(s) == [k |-> "Str", s |-> s, n |-> ZeroInt]

IdentTok(s) == [k |-> "Ident", s |-> s, n |-> ZeroInt]

IntTok(n) == [k |-> "Int", s |-> "", n |-> n]

Eof == Tok("Eof")

Keywords ==
    {"Load", "Goto", "Type", "TypeNl", "Insert", "Replace", "Delete",
     "Speed", "Select", "Find", "LinePause", "Wait"}

Trivia == {"Newline", "Comment", "Whitespace"}

(***************************************************************************)
(* The token cursor: Tokens::current, consume, take, consume_if, spans.    *)
(* p is the index of the current token; a read at or past the end of the   *)
(* stream yields Eof.                                                      *)
(***************************************************************************)
current(toks, p) == IF p <= Len(toks) THEN toks[p] ELSE Eof

consume(toks, p) == p + 1

\* take() returns current() and advances: the token is take's, the cursor
\* is consume's
take(toks, p) == [token |-> current(toks, p), pos |-> consume(toks, p)]

consume_if(toks, p, kind) ==
    IF current(toks, p).k = kind
    THEN [hit |-> TRUE, pos |-> consume(toks, p)]
    ELSE [hit |-> FALSE, pos |-> p]

\* the span reported with an error: the place of the token taken last
spans(toks, p) == p - 1

(***************************************************************************)
(* Errors (Error::invalid_arg, unexpected_token, invalid_instruction) and  *)
(* the Result of one grammar stage.                                        *)
(***************************************************************************)
NoError == [kind |-> "None", expected |-> "", token |-> Eof, span |-> 0]

invalid_arg(expected, token, span) ==
    [kind |-> "InvalidArgument", expected |-> expected, token |-> token,
     span |-> span]

unexpected_token(expected, token, span) ==
    [kind |-> "UnexpectedToken", expected |-> expected, token |-> token,
     span |-> span]

invalid_instruction(token, span) ==
    [kind |-> "InvalidInstruction", expected |-> "", token |-> token,
     span |-> span]

NoInstr == [op |-> "None"]

Ok(instr, p) == [ok |-> TRUE, instr |-> instr, err |-> NoError, pos |-> p]

Err(e, p) == [ok |-> FALSE, instr |-> NoInstr, err |-> e, pos |-> p]

(***************************************************************************)
(* The instruction model (Instruction, Dest, Source).                      *)
(***************************************************************************)
SourceStr(s) == [src |-> "Str", v |-> s]

SourceIdent(s) == [src |-> "Ident", v |-> s]

Marker(ident) == [dest |-> "Marker", ident |-> ident]

Relative(row, col) == [dest |-> "Relative", row |-> row, col |-> col]

\* &str -> PathBuf (path.into()) : the same text, owned as a path
PathBuf(s) == [path |-> s]


(***************************************************************************)
(* The keyword chain.  Every stage tests the current token for its keyword *)
(* with consume_if and otherwise hands the untouched cursor to the next    *)
(* stage; wait is the last stage and reports an unknown leading token.     *)
(* The stages are written last-first because each one names its successor. *)
(***************************************************************************)
waitAnyLeading(toks, p) ==
    LET t1 == take(toks, p)
        t2 == take(toks, t1.pos)
    IN  IF t2.token.k = "Int"
        THEN Ok([op |-> "Wait", seconds |-> AsU64(t2.token.n)], t2.pos)
        ELSE Err(invalid_arg("seconds", t2.token, spans(toks, t2.pos)), t2.pos)

wait(toks, p) ==
    LET t1 == take(toks, p)
    IN  IF t1.token.k = "Wait"
        THEN LET t2 == take(toks, t1.pos)
             IN  IF t2.token.k = "Int"
                 THEN Ok([op |-> "Wait", seconds |-> AsU64(t2.token.n)], t2.pos)
                 ELSE Err(invalid_arg("seconds", t2.token, spans(toks, t2.pos)),
                          t2.pos)
        ELSE Err(invalid_instruction(t1.token, spans(toks, t1.pos)), t1.pos)

linepause(toks, p) ==
    LET c == consume_if(toks, p, "LinePause")
    IN  IF c.hit
        THEN LET t == take(toks, c.pos)
             IN  IF t.token.k = "Int"
                 THEN Ok([op |-> "LinePause", ms |-> AsU64(t.token.n)], t.pos)
                 ELSE Err(invalid_arg("int", t.token, spans(toks, t.pos)), t.pos)
        ELSE wait(toks, p)

find(toks, p) ==
    LET c == consume_if(toks, p, "Find")
    IN  IF c.hit
        THEN LET t == take(toks, c.pos)
             IN  IF t.token.k = "Str"
                 THEN Ok([op |-> "Find", needle |-> t.token.s], t.pos)
                 ELSE Err(invalid_arg("string", t.token, spans(toks, t.pos)),
                          t.pos)
        ELSE linepause(toks, p)

select(toks, p) ==
    LET c == consume_if(toks, p, "Select")
    IN  IF c.hit
        THEN LET t1 == take(toks, c.pos)
             IN  IF t1.token.k = "Int"
                 THEN LET t2 == take(toks, t1.pos)
                      IN  IF t2.token.k = "Int"
                          THEN Ok([op |-> "Select",
                                   width |-> AsU16(t1.token.n),
                                   height |-> AsU16(t2.token.n)], t2.pos)
                          ELSE Err(invalid_arg("number", t2.token,
                                               spans(toks, t2.pos)), t2.pos)
                 ELSE Err(invalid_arg("ident or row", t1.token,
                                      spans(toks, t1.pos)), t1.pos)
        ELSE find(toks, p)

speed(toks, p) ==
    LET c == consume_if(toks, p, "Speed")
    IN  IF c.hit
        THEN LET t == take(toks, c.pos)
             IN  IF t.token.k = "Int"
                 THEN Ok([op |-> "Speed", ticks |-> AsU64(t.token.n)], t.pos)
                 ELSE Err(invalid_arg("int", t.token, spans(toks, t.pos)), t.pos)
        ELSE select(toks, p)

delete(toks, p) ==
    LET c == consume_if(toks, p, "Delete")
    IN  IF c.hit THEN Ok([op |-> "Delete"], c.pos) ELSE speed(toks, p)

change(toks, p) ==
    LET c == consume_if(toks, p, "Replace")
    IN  IF c.hit
        THEN LET t1 == take(toks, c.pos)
             IN  IF t1.token.k = "Str"
                 THEN LET t2 == take(toks, t1.pos)
                      IN  IF t2.token.k = "Str"
                          THEN Ok([op |-> "Replace", src |-> t1.token.s,
                                   replacement |-> SourceStr(t2.token.s)],
                                  t2.pos)
                          ELSE IF t2.token.k = "Ident"
                          THEN Ok([op |-> "Replace", src |-> t1.token.s,
                                   replacement |-> SourceIdent(t2.token.s)],
                                  t2.pos)
                          ELSE Err(invalid_arg("string or ident", t2.token,
                                               spans(toks, t2.pos)), t2.pos)
                 ELSE Err(invalid_arg("string", t1.token, spans(toks, t1.pos)),
                          t1.pos)
        ELSE delete(toks, p)

insert(toks, p) ==
    LET c == consume_if(toks, p, "Insert")
    IN  IF c.hit
        THEN LET t == take(toks, c.pos)
             IN  IF t.token.k = "Str"
                 THEN Ok([op |-> "Insert", source |-> SourceStr(t.token.s)],
                         t.pos)
                 ELSE IF t.token.k = "Ident"
                 THEN Ok([op |-> "Insert", source |-> SourceIdent(t.token.s)],
                         t.pos)
                 ELSE Err(invalid_arg("ident", t.token, spans(toks, t.pos)),
                          t.pos)
        ELSE change(toks, p)

\* the body shared by print and printnl: <string|ident> <nonl>?
TypeOperands(toks, p, prefix_newline) ==
    LET t == take(toks, p)
        n == consume_if(toks, t.pos, "NoNewline")
    IN  IF t.token.k = "Str"
        THEN Ok([op |-> "Type", source |-> SourceStr(t.token.s),
                 trim_trailing_newline |-> n.hit,
                 prefix_newline |-> prefix_newline], n.pos)
        ELSE IF t.token.k = "Ident"
        THEN Ok([op |-> "Type", source |-> SourceIdent(t.token.s),
                 trim_trailing_newline |-> n.hit,
                 prefix_newline |-> prefix_newline], n.pos)
        ELSE Err(invalid_arg("ident", t.token, spans(toks, t.pos)), t.pos)

printnlNoPrefix(toks, p) ==
    LET c == consume_if(toks, p, "TypeNl")
    IN  IF c.hit THEN TypeOperands(toks, c.pos, FALSE) ELSE insert(toks, p)

printnl(toks, p) ==
    LET c == consume_if(toks, p, "TypeNl")
    IN  IF c.hit THEN TypeOperands(toks, c.pos, TRUE) ELSE insert(toks, p)

print(toks, p) ==
    LET c == consume_if(toks, p, "Type")
    IN  IF c.hit THEN TypeOperands(toks, c.pos, FALSE) ELSE printnl(toks, p)

gotoAbs(toks, p) ==
    LET c == consume_if(toks, p, "Goto")
    IN  IF c.hit
        THEN LET t1 == take(toks, c.pos)
             IN  IF t1.token.k = "Ident"
                 THEN Ok([op |-> "Goto", dest |-> Marker(t1.token.s)], t1.pos)
                 ELSE IF t1.token.k = "Int"
                 THEN LET t2 == take(toks, t1.pos)
                      IN  IF t2.token.k = "Int"
                          THEN Ok([op |-> "Goto",
                                   dest |-> Relative(
                                       AsI32([t1.token.n EXCEPT !.neg = FALSE]),
                                       AsI32([t2.token.n EXCEPT !.neg = FALSE]))],
                                  t2.pos)
                          ELSE Err(invalid_arg("number", t2.token,
                                               spans(toks, t2.pos)), t2.pos)
                 ELSE Err(invalid_arg("ident", t1.token, spans(toks, t1.pos)),
                          t1.pos)
        ELSE print(toks, p)

goto(toks, p) ==
    LET c == consume_if(toks, p, "Goto")
    IN  IF c.hit
        THEN LET t1 == take(toks, c.pos)
             IN  IF t1.token.k = "Ident"
                 THEN Ok([op |-> "Goto", dest |-> Marker(t1.token.s)], t1.pos)
                 ELSE IF t1.token.k = "Int"
                 THEN LET t2 == take(toks, t1.pos)
                      IN  IF t2.token.k = "Int"
                          THEN Ok([op |-> "Goto",
                                   dest |-> Relative(AsI32(t1.token.n),
                                                     AsI32(t2.token.n))],
                                  t2.pos)
                          ELSE Err(invalid_arg("number", t2.token,
                                               spans(toks, t2.pos)), t2.pos)
                 ELSE Err(invalid_arg("ident", t1.token, spans(toks, t1.pos)),
                          t1.pos)
        ELSE print(toks, p)

loadLabelSlip(toks, p) ==
    LET c == consume_if(toks, p, "Load")
    IN  IF c.hit
        THEN LET t1 == take(toks, c.pos)
                 t2 == take(toks, t1.pos)
                 t3 == take(toks, t2.pos)
             IN  IF t1.token.k # "Str"
                 THEN Err(invalid_arg("string", t1.token, spans(toks, t1.pos)),
                          t1.pos)
                 ELSE IF t2.token.k # "As"
                 THEN Err(invalid_arg("as", t1.token, spans(toks, t2.pos)),
                          t2.pos)
                 ELSE IF t3.token.k # "Ident"
                 THEN Err(invalid_arg("ident", t3.token, spans(toks, t3.pos)),
                          t3.pos)
                 ELSE Ok([op |-> "Load", path |-> PathBuf(t1.token.s),
                          key |-> t3.token.s], t3.pos)
        ELSE goto(toks, p)

load(toks, p) ==
    LET c == consume_if(toks, p, "Load")
    IN  IF c.hit
        THEN LET t1 == take(toks, c.pos)
                 t2 == take(toks, t1.pos)
                 t3 == take(toks, t2.pos)
             IN  IF t1.token.k # "Str"
                 THEN Err(invalid_arg("string", t1.token, spans(toks, t1.pos)),
                          t1.pos)
                 ELSE IF t2.token.k # "As"
                 THEN Err(invalid_arg("as", t2.token, spans(toks, t2.pos)),
                          t2.pos)
                 ELSE IF t3.token.k # "Ident"
                 THEN Err(invalid_arg("ident", t3.token, spans(toks, t3.pos)),
                          t3.pos)
                 ELSE Ok([op |-> "Load", path |-> PathBuf(t1.token.s),
                          key |-> t3.token.s], t3.pos)
        ELSE goto(toks, p)

(***************************************************************************)
(* Parser::parse, one iteration of its loop at a time.  The state of an    *)
(* iteration is the cursor p, the local vector instrs and the value        *)
(* returned so far (tag None while the loop runs).                         *)
(***************************************************************************)
Running(p, instrs) ==
    [pos |-> p, instructions |-> instrs,
     result |-> [tag |-> "None", instructions |-> <<>>, error |-> NoError]]

\* Ok(Instructions::new(instructions))
Returned(p, instrs) ==
    [pos |-> p, instructions |-> instrs,
     result |-> [tag |-> "Ok", instructions |-> instrs, error |-> NoError]]

\* Err(e), by `?` or by `return Error::...`
Failed(p, instrs, e) ==
    [pos |-> p, instructions |-> instrs,
     result |-> [tag |-> "Err", instructions |-> <<>>, error |-> e]]

IsSkippedNewlineOnly(tok) == tok.k = "Newline"

\* the tokens the loop skips before an instruction
IsSkipped(tok) == tok.k \in {"Newline", "Comment", "Whitespace"}

IsLineEndStrict(tok) == tok.k \in {"Newline", "Comment"}

\* the tokens after an instruction on which the loop continues
IsLineEnd(tok) == tok.k \in {"Newline", "Comment", "Whitespace"}

SkipBranchStuck(toks, p, instrs) == Running(p, instrs)

SkipBranch(toks, p, instrs) == Running(consume(toks, p), instrs)

EofBranch(toks, p, instrs) == Returned(p, instrs)

LineBranchKeepGoing(toks, p, instrs) ==
    LET r == load(toks, p)
    IN  IF ~r.ok THEN Running(r.pos, instrs)
        ELSE LET t == take(toks, r.pos)
                 pushed == Append(instrs, r.instr)
             IN  IF IsLineEnd(t.token) THEN Running(t.pos, pushed)
                 ELSE IF t.token.k = "Eof" THEN Returned(t.pos, pushed)
                 ELSE Failed(t.pos, pushed,
                             unexpected_token("newline or end of file", t.token,
                                              spans(toks, t.pos)))

LineBranch(toks, p, instrs) ==
    LET r == load(toks, p)
    IN  IF ~r.ok THEN Failed(r.pos, instrs, r.err)
        ELSE LET t == take(toks, r.pos)
                 pushed == Append(instrs, r.instr)
             IN  IF IsLineEnd(t.token) THEN Running(t.pos, pushed)
                 ELSE IF t.token.k = "Eof" THEN Returned(t.pos, pushed)
                 ELSE Failed(t.pos, pushed,
                             unexpected_token("newline or end of file", t.token,
                                              spans(toks, t.pos)))

LoopStep(toks, p, instrs) ==
    IF IsSkipped(current(toks, p)) THEN SkipBranch(toks, p, instrs)
    ELSE IF current(toks, p).k = "Eof" THEN EofBranch(toks, p, instrs)
    ELSE LineBranch(toks, p, instrs)

\* the whole loop, as the function from a token stream to the state it ends in
RECURSIVE ParseFrom(_, _, _)
ParseFrom(toks, p, instrs) ==
    LET st == LoopStep(toks, p, instrs)
    IN  IF st.result.tag = "None" THEN ParseFrom(toks, st.pos, st.instructions)
        ELSE st

\* parse(tokens) = Parser::new(tokens).parse()
parse(toks) == ParseFrom(toks, 1, <<>>).result

(***************************************************************************)
(* Inputs.  Integer payloads sit on the edges of the three target types;   *)
(* strings and identifiers are two of each.                                *)
(***************************************************************************)
MaxSeg == 3

IntVals ==
    { Z(FALSE, 0, 0, 0, 1), Z(FALSE, 0, 0, 0, 2),
      Z(TRUE, 0, 0, 0, 1), Z(TRUE, 0, 0, 0, 2),
      Z(FALSE, 0, 0, 0, 65535), Z(FALSE, 0, 0, 1, 0),
      Z(FALSE, 0, 0, 32767, 65535), Z(FALSE, 0, 0, 32768, 0),
      Z(TRUE, 0, 0, 32768, 0), Z(TRUE, 0, 0, 32768, 1),
      Z(FALSE, 0, 1, 0, 5),
      Z(FALSE, 32767, 65535, 65535, 65535), Z(TRUE, 32768, 0, 0, 0) }

Strs == {"a", "b c"}

Idents == {"x", "y"}

I32Vals == {1, 2, -1, -2, 2147483647, -2147483647 - 1}

U16Vals == {0, 1, 65535}

U64Vals ==
    { <<0, 0, 0, 0>>, <<0, 0, 0, 123>>, <<0, 0, 1, 0>>,
      <<32767, 65535, 65535, 65535>> }

Sources == {SourceStr(s) : s \in Strs} \cup {SourceIdent(i) : i \in Idents}

\* the instruction values of the bounded instruction model
InstrValues ==
    {[op |-> "Load", path |-> PathBuf(s), key |-> i] : s \in Strs, i \in Idents}
    \cup {[op |-> "Goto", dest |-> Marker(i)] : i \in Idents}
    \cup {[op |-> "Goto", dest |-> Relative(r, c)] : r \in I32Vals, c \in I32Vals}
    \cup {[op |-> "Type", source |-> src, trim_trailing_newline |-> t,
           prefix_newline |-> n] : src \in Sources, t \in BOOLEAN, n \in BOOLEAN}
    \cup {[op |-> "Insert", source |-> src] : src \in Sources}
    \cup {[op |-> "Replace", src |-> s, replacement |-> src] :
             s \in Strs, src \in Sources}
    \cup {[op |-> "Delete"]}
    \cup {[op |-> "Speed", ticks |-> v] : v \in U64Vals}
    \cup {[op |-> "Select", width |-> w, height |-> h] : w \in U16Vals, h \in U16Vals}
    \cup {[op |-> "Find", needle |-> s] : s \in Strs}
    \cup {[op |-> "LinePause", ms |-> v] : v \in U64Vals}
    \cup {[op |-> "Wait", seconds |-> v] : v \in U64Vals}

\* the Int token that writes a value of each target type
IntOfI32(v) ==
    IF v >= 0 THEN Z(FALSE, 0, 0, v \div Limb, v % Limb)
    ELSE LET w == 0 - (v + 1)
             lo == (w % Limb) + 1
         IN  IF lo = Limb THEN Z(TRUE, 0, 0, (w \div Limb) + 1, 0)
             ELSE Z(TRUE, 0, 0, w \div Limb, lo)

IntOfU16(v) == Z(FALSE, 0, 0, 0, v)

IntOfU64(v) == [neg |-> FALSE, mag |-> v]

SourceTok(src) == IF src.src = "Str" THEN StrTok(src.v) ELSE IdentTok(src.v)

\* the canonical one-line rendering of an instruction, as its token sequence
Render(i) ==
    CASE i.op = "Load" ->
            <<Tok("Load"), StrTok(i.path.path), Tok("As"), IdentTok(i.key)>>
      [] i.op = "Goto" ->
            IF i.dest.dest = "Marker"
            THEN <<Tok("Goto"), IdentTok(i.dest.ident)>>
            ELSE <<Tok("Goto"), IntTok(IntOfI32(i.dest.row)),
                   IntTok(IntOfI32(i.dest.col))>>
      [] i.op = "Type" ->
            <<Tok(IF i.prefix_newline THEN "TypeNl" ELSE "Type"),
              SourceTok(i.source)>>
            \o (IF i.trim_trailing_newline THEN <<Tok("NoNewline")>> ELSE <<>>)
      [] i.op = "Insert" -> <<Tok("Insert"), SourceTok(i.source)>>
      [] i.op = "Replace" ->
            <<Tok("Replace"), StrTok(i.src), SourceTok(i.replacement)>>
      [] i.op = "Delete" -> <<Tok("Delete")>>
      [] i.op = "Speed" -> <<Tok("Speed"), IntTok(IntOfU64(i.ticks))>>
      [] i.op = "Select" ->
            <<Tok("Select"), IntTok(IntOfU16(i.width)),
              IntTok(IntOfU16(i.height))>>
      [] i.op = "Find" -> <<Tok("Find"), StrTok(i.needle)>>
      [] i.op = "LinePause" -> <<Tok("LinePause"), IntTok(IntOfU64(i.ms))>>
      [] i.op = "Wait" -> <<Tok("Wait"), IntTok(IntOfU64(i.seconds))>>

ValidLines == {Render(i) : i \in InstrValues}

\* lines whose integers need not fit the operand they are written for
RawLines ==
    {<<Tok(k), IntTok(n)>> : k \in {"Speed", "LinePause", "Wait"}, n \in IntVals}
    \cup {<<Tok(k), IntTok(n), IntTok(m)>> :
             k \in {"Goto", "Select"}, n \in IntVals, m \in IntVals}

\* one token of every kind but Eof
AnyToken ==
    {Tok(k) : k \in Keywords \cup {"As", "NoNewline"} \cup Trivia}
    \cup {StrTok("a"), IdentTok("x"), IntTok(Z(FALSE, 0, 0, 0, 1))}

\* one line of every grammar form
ShapeLines ==
    { <<Tok("Load"), StrTok("a"), Tok("As"), IdentTok("x")>>,
      <<Tok("Goto"), IdentTok("x")>>,
      <<Tok("Goto"), IntTok(Z(TRUE, 0, 0, 0, 1)), IntTok(Z(TRUE, 0, 0, 0, 2))>>,
      <<Tok("Type"), StrTok("a")>>,
      <<Tok("Type"), IdentTok("x"), Tok("NoNewline")>>,
      <<Tok("TypeNl"), StrTok("a")>>,
      <<Tok("TypeNl"), IdentTok("x"), Tok("NoNewline")>>,
      <<Tok("Insert"), StrTok("a")>>,
      <<Tok("Insert"), IdentTok("x")>>,
      <<Tok("Replace"), StrTok("a"), StrTok("b c")>>,
      <<Tok("Replace"), StrTok("a"), IdentTok("y")>>,
      <<Tok("Delete")>>,
      <<Tok("Speed"), IntTok(Z(FALSE, 0, 0, 0, 2))>>,
      <<Tok("Select"), IntTok(Z(FALSE, 0, 0, 0, 1)), IntTok(Z(FALSE, 0, 0, 0, 2))>>,
      <<Tok("Find"), StrTok("a")>>,
      <<Tok("LinePause"), IntTok(Z(FALSE, 0, 0, 0, 2))>>,
      <<Tok("Wait"), IntTok(Z(FALSE, 0, 0, 0, 2))>> }

\* every line cut after some of its tokens
Cuts == UNION {{SubSeq(l, 1, c) : c \in 0..Len(l)} : l \in ShapeLines}

\* a cut line, alone or continued by one or two arbitrary tokens
CutLines ==
    Cuts
    \cup {c \o <<t>> : c \in Cuts, t \in AnyToken}
    \cup {c \o <<t, u>> :
             c \in Cuts, t \in AnyToken,
             u \in {Tok("NoNewline"), Tok("Newline"), Tok("Wait")}}

\* the pieces of a script of several lines
SegSet ==
    { <<Tok("Newline")>>, <<Tok("Comment")>>, <<Tok("Whitespace")>>,
      <<Tok("Goto"), IntTok(Z(FALSE, 0, 0, 0, 1)), IntTok(Z(FALSE, 0, 0, 0, 2))>>,
      <<Tok("Wait"), IntTok(Z(FALSE, 0, 0, 0, 1))>>,
      <<Tok("Type"), StrTok("a"), Tok("NoNewline")>>,
      <<Tok("Delete")>>,
      <<Tok("Load"), StrTok("a")>>,
      <<IdentTok("x")>>,
      <<Tok("Find"), Tok("Newline")>>,
      <<Tok("Wait"), IntTok(Z(FALSE, 0, 0, 0, 2)), Tok("Newline")>>,
      <<Tok("Type"), IdentTok("x"), Tok("Whitespace")>> }

RECURSIVE Scripts(_)
Scripts(n) ==
    IF n = 0 THEN {<<>>}
    ELSE LET shorter == Scripts(n - 1)
         IN  shorter \cup {s \o g : s \in shorter, g \in SegSet}

\* a token stream always ends in Eof, and holds no other Eof
Streams ==
    {l \o <<Eof>> : l \in ValidLines \cup RawLines \cup CutLines \cup Scripts(MaxSeg)}

(***************************************************************************)
(* The state machine.                                                      *)
(***************************************************************************)
VARIABLES
    tokens,        \* Parser.tokens: the stream being parsed
    pos,           \* the cursor of Parser.tokens
    instructions,  \* the local vector of Parser::parse
    result,        \* what parse returned; tag None while it runs
    lineStart,     \* history: the cursor where the last instruction began
    lineEnd,       \* history: the cursor when that iteration ended
    parsed,        \* history: that iteration pushed an instruction
    prevPos        \* history: the cursor before the last iteration of the loop

vars ==
    <<tokens, pos, instructions, result, lineStart, lineEnd, parsed, prevPos>>

Init ==
    /\ tokens \in Streams
    /\ pos = 1
    /\ instructions = <<>>
    /\ result = Running(1, <<>>).result
    /\ lineStart = 0
    /\ lineEnd = 0
    /\ parsed = FALSE
    /\ prevPos = 0

Becomes(st) ==
    /\ pos' = st.pos
    /\ instructions' = st.instructions
    /\ result' = st.result
    /\ prevPos' = pos
    /\ UNCHANGED tokens

\* the three arms of the match on current() at the head of the loop
AtTrivia == result.tag = "None" /\ IsSkipped(current(tokens, pos))

AtEof ==
    /\ result.tag = "None"
    /\ ~IsSkipped(current(tokens, pos))
    /\ current(tokens, pos).k = "Eof"

AtInstruction ==
    /\ result.tag = "None"
    /\ ~IsSkipped(current(tokens, pos))
    /\ current(tokens, pos).k # "Eof"

\* parse.rs 18-22: a Newline, Comment or Whitespace before an instruction
SkipTrivia ==
    /\ AtTrivia
    /\ Becomes(SkipBranch(tokens, pos, instructions))
    /\ UNCHANGED <<lineStart, lineEnd, parsed>>

\* parse.rs 23 and 46: Eof before an instruction ends the loop
StopAtEof ==
    /\ AtEof
    /\ Becomes(EofBranch(tokens, pos, instructions))
    /\ UNCHANGED <<lineStart, lineEnd, parsed>>

\* parse.rs 27-41: one instruction and the token that must end its line
ParseLine ==
    /\ AtInstruction
    /\ Becomes(LineBranch(tokens, pos, instructions))
    /\ lineStart' = pos
    /\ lineEnd' = pos'
    /\ parsed' = (Len(instructions') > Len(instructions))

Next == SkipTrivia \/ StopAtEof \/ ParseLine

Spec == Init /\ [][Next]_vars

Done == result.tag # "None"

TypeOK ==
    /\ pos \in 1..(Len(tokens) + 1)
    /\ result.tag \in {"None", "Ok", "Err"}
    /\ lineStart \in 0..Len(tokens)
    /\ lineEnd \in 0..(Len(tokens) + 1)
    /\ parsed \in BOOLEAN
    /\ prevPos \in 0..Len(tokens)

(***************************************************************************)
(* What the properties below speak about: the line parsed last.            *)
(***************************************************************************)
\* an iteration of the loop has parsed, or tried to parse, an instruction
LineSeen == lineStart # 0

\* the leading token of that line, and the token j places after it
Lead == tokens[lineStart]

Operand(j) == current(tokens, lineStart + j)

\* the token taken last by that iteration: the one after the instruction when
\* an instruction was pushed, the offending operand otherwise
LastTaken == tokens[lineEnd - 1]

\* the instruction pushed by that iteration
Last == instructions[Len(instructions)]

\* parse failed with this kind of error on this token, returning no sequence
FailsWith(kind, token) ==
    /\ result.tag = "Err"
    /\ result.error.kind = kind
    /\ result.error.token = token
    /\ result.instructions = <<>>

MaxRun == 2

\* the runs of one to n Newline, Comment and Whitespace tokens
RECURSIVE TriviaRunsUpTo(_)
TriviaRunsUpTo(n) ==
    IF n = 0 THEN {}
    ELSE LET shorter == TriviaRunsUpTo(n - 1)
         IN  {<<Tok(k)>> : k \in Trivia}
             \cup shorter
             \cup {r \o <<Tok(k)>> : r \in shorter, k \in Trivia}

TriviaRuns == TriviaRunsUpTo(MaxRun)

InsertAt(toks, q, ins) ==
    SubSeq(toks, 1, q - 1) \o ins \o SubSeq(toks, q, Len(toks))

\* the places at line level where the parse of this stream stands: the
\* cursor at the head of the loop, and the place right after the instruction
\* just parsed
LinePlaces ==
    (IF result.tag = "None" THEN {pos} ELSE {})
    \cup (IF LineSeen /\ parsed /\ pos = lineEnd
             /\ (IsLineEnd(LastTaken) \/ LastTaken.k = "Eof")
          THEN {lineEnd - 1} ELSE {})

OnlyTrivia == \A j \in 1..(Len(tokens) - 1) : tokens[j].k \in Trivia

C2_TriviaTransparent ==
    /\ parse(tokens).tag = "Ok" =>
          \A q \in LinePlaces : \A ins \in TriviaRuns :
              parse(InsertAt(tokens, q, ins)) = parse(tokens)
    /\ (Done /\ OnlyTrivia) =>
          /\ result.tag = "Ok"
          /\ result.instructions = <<>>
          /\ result.error = NoError

C2_Witness ==
    /\ result.tag = "Ok"
    /\ Len(result.instructions) = 2
    /\ tokens[1].k = "Comment"
    /\ \E j \in 1..Len(tokens) : tokens[j].k = "Whitespace"
    /\ parse(InsertAt(tokens, 1, <<Tok("Newline")>>)).instructions
           = result.instructions

(***************************************************************************)
(* C3: round trip.  For every instruction value i of the instruction       *)
(* model, parsing the tokens of its canonical one-line rendering followed  *)
(* by Eof returns exactly <<i>>.                                           *)
(***************************************************************************)
C3_RoundTrip ==
    \A i \in InstrValues :
        (Done /\ tokens = Render(i) \o <<Eof>>) =>
            /\ result.tag = "Ok"
            /\ Len(result.instructions) = 1
            /\ result.instructions[1].op = i.op
            /\ result.instructions = <<i>>

C3_Witness ==
    /\ Done
    /\ tokens = Render([op |-> "Goto", dest |-> Relative(-1, -2)]) \o <<Eof>>
    /\ result.tag = "Ok"
    /\ result.instructions = <<[op |-> "Goto", dest |-> Relative(-1, -2)]>>

(***************************************************************************)
(* C4: dispatch depends only on the leading token of the line.  Each of    *)
(* the twelve keywords runs its own grammar: what it yields is its own     *)
(* variant (Type for type and typenl) made of exactly the tokens of that   *)
(* grammar, or an InvalidArgument of it, never InvalidInstruction.  Any    *)
(* other leading token (Str, Int, Ident, as, nonl) makes parse fail with   *)
(* InvalidInstruction carrying that token, nothing else consumed and no    *)
(* instruction produced.                                                   *)
(***************************************************************************)
VariantOf(k) ==
    CASE k = "Load" -> "Load"
      [] k = "Goto" -> "Goto"
      [] k \in {"Type", "TypeNl"} -> "Type"
      [] k = "Insert" -> "Insert"
      [] k = "Replace" -> "Replace"
      [] k = "Delete" -> "Delete"
      [] k = "Speed" -> "Speed"
      [] k = "Select" -> "Select"
      [] k = "Find" -> "Find"
      [] k = "LinePause" -> "LinePause"
      [] k = "Wait" -> "Wait"

\* the number of tokens an instruction is written with
WrittenLen(i) ==
    CASE i.op = "Load" -> 4
      [] i.op = "Goto" -> IF i.dest.dest = "Marker" THEN 2 ELSE 3
      [] i.op = "Type" -> IF i.trim_trailing_newline THEN 3 ELSE 2
      [] i.op \in {"Replace", "Select"} -> 3
      [] i.op = "Delete" -> 1
      [] i.op \in {"Insert", "Speed", "Find", "LinePause", "Wait"} -> 2

C4_Dispatch ==
    LineSeen =>
        IF Lead.k \in Keywords
        THEN IF parsed
             THEN /\ Last.op = VariantOf(Lead.k)
                  /\ lineEnd = lineStart + WrittenLen(Last) + 1
             ELSE /\ FailsWith("InvalidArgument", LastTaken)
                  /\ lineEnd > lineStart + 1
        ELSE /\ Lead.k \in {"Str", "Int", "Ident", "As", "NoNewline"}
             /\ ~parsed
             /\ FailsWith("InvalidInstruction", Lead)
             /\ pos = lineStart + 1

C4_Witness ==
    /\ LineSeen
    /\ Lead.k = "As"
    /\ FailsWith("InvalidInstruction", Lead)
    /\ pos = lineStart + 1

(***************************************************************************)
(* Written integers and residues, for the properties about the casts.      *)
(***************************************************************************)
\* the written integer n lies in the signed 32-bit range
InI32(n) ==
    /\ n.mag[1] = 0 /\ n.mag[2] = 0
    /\ \/ n.mag[3] < HalfLimb
       \/ n.neg /\ n.mag[3] = HalfLimb /\ n.mag[4] = 0

\* the written integer n lies in 0..65535, and in 0..2^64-1
InU16(n) == ~n.neg /\ n.mag[1] = 0 /\ n.mag[2] = 0 /\ n.mag[3] = 0

InU64(n) == ~n.neg

\* m - 1 for a magnitude m > 0
Pred(m) ==
    IF m[4] > 0 THEN <<m[1], m[2], m[3], m[4] - 1>>
    ELSE IF m[3] > 0 THEN <<m[1], m[2], m[3] - 1, Limb - 1>>
    ELSE IF m[2] > 0 THEN <<m[1], m[2] - 1, Limb - 1, Limb - 1>>
    ELSE <<m[1] - 1, Limb - 1, Limb - 1, Limb - 1>>

\* n mod 2^64 as four limbs: n itself, or (2^64 - 1) - (|n| - 1) below zero
Mod64(n) ==
    IF ~n.neg THEN n.mag
    ELSE LET d == Pred(n.mag)
         IN  <<Limb - 1 - d[1], Limb - 1 - d[2], Limb - 1 - d[3], Limb - 1 - d[4]>>

\* n mod 2^32 as two limbs, and n mod 2^16
Mod32(n) == <<Mod64(n)[3], Mod64(n)[4]>>

Mod16(n) == Mod64(n)[4]

\* v mod 2^32 as two limbs, for a signed 32-bit value v
ResidueOfI32(v) == <<(v \div Limb) % Limb, v % Limb>>

(***************************************************************************)
(* C5 (as stated): goto <Ident x> yields Goto(Marker(x)) from one operand  *)
(* token; goto <Int r> <Int c> yields Goto(Relative{row: r, col: c}), the  *)
(* value and sign of both kept; an Int followed by a non-Int, or a first   *)
(* operand that is neither, fails with InvalidArgument and no Goto.        *)
(***************************************************************************)
GotoMarkerAndErrors ==
    /\ Operand(1).k = "Ident" =>
          /\ parsed
          /\ Last = [op |-> "Goto", dest |-> Marker(Operand(1).s)]
          /\ lineEnd = lineStart + 3
    /\ (Operand(1).k = "Int" /\ Operand(2).k # "Int") =>
          /\ ~parsed
          /\ FailsWith("InvalidArgument", Operand(2))
    /\ Operand(1).k \notin {"Ident", "Int"} =>
          /\ ~parsed
          /\ FailsWith("InvalidArgument", Operand(1))

C5_AsStated ==
    (LineSeen /\ Lead.k = "Goto") =>
        /\ GotoMarkerAndErrors
        /\ (Operand(1).k = "Int" /\ Operand(2).k = "Int") =>
              /\ parsed
              /\ Last.op = "Goto" /\ Last.dest.dest = "Relative"
              /\ IntOfI32(Last.dest.row) = Operand(1).n
              /\ IntOfI32(Last.dest.col) = Operand(2).n

(***************************************************************************)
(* C5 (amended): as stated, except that row and col are r and c reduced    *)
(* modulo 2^32 into the signed 32-bit range: value and sign are kept       *)
(* exactly when the written integer lies in -2^31..2^31-1 (-1 -2 gives     *)
(* row -1, col -2), and are not kept outside it.                           *)
(***************************************************************************)
C5_Goto ==
    (LineSeen /\ Lead.k = "Goto") =>
        /\ GotoMarkerAndErrors
        /\ (Operand(1).k = "Int" /\ Operand(2).k = "Int") =>
              /\ parsed
              /\ Last.op = "Goto" /\ Last.dest.dest = "Relative"
              /\ lineEnd = lineStart + 4
              /\ ResidueOfI32(Last.dest.row) = Mod32(Operand(1).n)
              /\ ResidueOfI32(Last.dest.col) = Mod32(Operand(2).n)
              /\ (IntOfI32(Last.dest.row) = Operand(1).n) = InI32(Operand(1).n)
              /\ (IntOfI32(Last.dest.col) = Operand(2).n) = InI32(Operand(2).n)

C5_Witness ==
    /\ LineSeen /\ Lead.k = "Goto" /\ parsed
    /\ Operand(1).n = Z(TRUE, 0, 0, 0, 1) /\ Operand(2).n = Z(TRUE, 0, 0, 0, 2)
    /\ Last = [op |-> "Goto", dest |-> Relative(-1, -2)]

(***************************************************************************)
(* C6: for type and typenl with a Str or Ident operand the Type            *)
(* instruction has the source of that operand, prefix_newline exactly for  *)
(* typenl, and trim_trailing_newline exactly when nonl follows the         *)
(* operand.  nonl is consumed in that position only: no instruction holds  *)
(* a nonl token anywhere else, and a nonl after any other instruction is   *)
(* an unexpected token.                                                    *)
(***************************************************************************)
C6_TypeFlags ==
    LineSeen =>
        /\ (Lead.k \in {"Type", "TypeNl"} /\ Operand(1).k \in {"Str", "Ident"}) =>
              /\ parsed
              /\ Last.op = "Type"
              /\ Last.source = IF Operand(1).k = "Str"
                               THEN SourceStr(Operand(1).s)
                               ELSE SourceIdent(Operand(1).s)
              /\ Last.prefix_newline = (Lead.k = "TypeNl")
              /\ Last.trim_trailing_newline = (Operand(2).k = "NoNewline")
        /\ parsed =>
              /\ \A j \in lineStart..(lineEnd - 2) :
                     tokens[j].k = "NoNewline" =>
                         Lead.k \in {"Type", "TypeNl"} /\ j = lineStart + 2
              /\ LastTaken.k = "NoNewline" =>
                     FailsWith("UnexpectedToken", LastTaken)

C6_Witness ==
    /\ LineSeen /\ parsed
    /\ Lead.k = "TypeNl" /\ Operand(2).k = "NoNewline"
    /\ Last.op = "Type"
    /\ Last.prefix_newline /\ Last.trim_trailing_newline

(***************************************************************************)
(* C7: every operand mismatch is an InvalidArgument carrying the token     *)
(* found at the slot.  For every keyword and every operand slot of its     *)
(* grammar, the first slot whose token is of a kind the slot does not      *)
(* accept (Newline and Eof for a missing operand included, an Ident first  *)
(* after select or replace included) makes parse fail with InvalidArgument *)
(* on exactly that token, with no instruction; after load the label is     *)
(* "string", "as", "ident" for slots one, two, three.                      *)
(***************************************************************************)
\* the token kinds the grammar accepts at operand slot j of a line that
\* begins with keyword k; {} when the line has no such slot
Accepts(k, j) ==
    CASE k = "Load" ->
            IF j = 1 THEN {"Str"} ELSE IF j = 2 THEN {"As"}
            ELSE IF j = 3 THEN {"Ident"} ELSE {}
      [] k = "Goto" ->
            IF j = 1 THEN {"Ident", "Int"}
            ELSE IF j = 2 /\ Operand(1).k = "Int" THEN {"Int"} ELSE {}
      [] k \in {"Type", "TypeNl", "Insert"} ->
            IF j = 1 THEN {"Str", "Ident"} ELSE {}
      [] k = "Replace" ->
            IF j = 1 THEN {"Str"} ELSE IF j = 2 THEN {"Str", "Ident"} ELSE {}
      [] k = "Delete" -> {}
      [] k \in {"Speed", "LinePause", "Wait"} -> IF j = 1 THEN {"Int"} ELSE {}
      [] k = "Select" -> IF j \in {1, 2} THEN {"Int"} ELSE {}
      [] k = "Find" -> IF j = 1 THEN {"Str"} ELSE {}

Mismatch(j) ==
    /\ Accepts(Lead.k, j) # {}
    /\ Operand(j).k \notin Accepts(Lead.k, j)

FirstMismatch(j) == Mismatch(j) /\ \A i \in 1..(j - 1) : ~Mismatch(i)

C7_InvalidArgument ==
    (LineSeen /\ Lead.k \in Keywords) =>
        /\ \A j \in 1..3 :
               FirstMismatch(j) =>
                   /\ ~parsed
                   /\ FailsWith("InvalidArgument", Operand(j))
                   /\ lineEnd = lineStart + j + 1
                   /\ Lead.k = "Load" =>
                          result.error.expected = <<"string", "as", "ident">>[j]
        /\ (\A j \in 1..3 : ~Mismatch(j)) => parsed

C7_Witness ==
    /\ LineSeen /\ Lead.k = "Load"
    /\ FirstMismatch(2)
    /\ Operand(2).k = "Eof"
    /\ FailsWith("InvalidArgument", Operand(2))
    /\ result.error.expected = "as"

(***************************************************************************)
(* C8: the first error aborts the parse with no partial result.  When an   *)
(* iteration does not complete its line, parse returns an error at once;   *)
(* the lines before it all parse, and none of their instructions is        *)
(* returned; the error is the one the line gives when parsed alone (its    *)
(* span moved by the line's offset); the token it carries is the last one  *)
(* consumed; and whatever follows that token does not change the result.   *)
(* The result is a sequence or an error, never both.                       *)
(***************************************************************************)
\* what may follow the offending token: the rest of the script
Continuations ==
    { <<Eof>>,
      <<Tok("Newline"), Tok("Wait"), IntTok(Z(FALSE, 0, 0, 0, 1)), Eof>>,
      <<StrTok("a"), Tok("Newline"), Eof>>,
      <<Tok("As"), IdentTok("x"), Eof>>,
      <<Tok("Newline"), Tok("Load"), Eof>> }

\* the stream up to the token consumed last, continued by rest; a stream
\* already at its Eof has no other continuation
Continued(from, rest) ==
    IF tokens[pos - 1].k = "Eof" THEN SubSeq(tokens, from, pos - 1)
    ELSE SubSeq(tokens, from, pos - 1) \o rest

SameErrorMoved(e, alone, offset) ==
    /\ alone.tag = "Err"
    /\ alone.instructions = <<>>
    /\ alone.error.kind = e.kind
    /\ alone.error.expected = e.expected
    /\ alone.error.token = e.token
    /\ alone.error.span + offset = e.span

C8_FirstErrorAborts ==
    /\ (LineSeen /\ ~parsed) => result.tag = "Err"
    /\ result.tag = "Ok" => result.error = NoError
    /\ result.tag = "Err" =>
          /\ LineSeen /\ pos = lineEnd
          /\ result.instructions = <<>>
          /\ result.error.token = tokens[pos - 1]
          /\ result.error.span = pos - 1
          /\ LET before == parse(SubSeq(tokens, 1, lineStart - 1) \o <<Eof>>)
             IN  /\ before.tag = "Ok"
                 /\ before.instructions
                        = SubSeq(instructions, 1,
                                 Len(instructions) - (IF parsed THEN 1 ELSE 0))
          /\ \A rest \in Continuations :
                 /\ parse(Continued(1, rest)) = result
                 /\ SameErrorMoved(result.error,
                                   parse(Continued(lineStart, rest)),
                                   lineStart - 1)

C8_Witness ==
    /\ result.tag = "Err"
    /\ Len(instructions) = 2
    /\ ~parsed
    /\ lineStart > 4
    /\ pos <= Len(tokens)
    /\ result.instructions = <<>>

(***************************************************************************)
(* C9: an Int token in an integer slot is never rejected for its value.    *)
(* The instruction is produced and the operand is the written integer n    *)
(* wrapped into the target type: n mod 2^64 for speed, linepause and wait, *)
(* n mod 2^16 for the width and height of select, n reduced mod 2^32 into  *)
(* the signed 32-bit range for the row and col of goto; so the operand is  *)
(* the written integer exactly when n lies in the range of the type.       *)
(***************************************************************************)
U64Operand(i) ==
    CASE i.op = "Speed" -> i.ticks
      [] i.op = "LinePause" -> i.ms
      [] i.op = "Wait" -> i.seconds

C9_IntegerWrapping ==
    LineSeen =>
        /\ (Lead.k \in {"Speed", "LinePause", "Wait"} /\ Operand(1).k = "Int") =>
              /\ parsed
              /\ Last.op = VariantOf(Lead.k)
              /\ U64Operand(Last) = Mod64(Operand(1).n)
              /\ (IntOfU64(U64Operand(Last)) = Operand(1).n) = InU64(Operand(1).n)
        /\ (Lead.k = "Select" /\ Operand(1).k = "Int" /\ Operand(2).k = "Int") =>
              /\ parsed
              /\ Last.op = "Select"
              /\ Last.width = Mod16(Operand(1).n)
              /\ Last.height = Mod16(Operand(2).n)
              /\ (IntOfU16(Last.width) = Operand(1).n) = InU16(Operand(1).n)
              /\ (IntOfU16(Last.height) = Operand(2).n) = InU16(Operand(2).n)
        /\ (Lead.k = "Goto" /\ Operand(1).k = "Int" /\ Operand(2).k = "Int") =>
              /\ parsed
              /\ Last.op = "Goto" /\ Last.dest.dest = "Relative"
              /\ ResidueOfI32(Last.dest.row) = Mod32(Operand(1).n)
              /\ ResidueOfI32(Last.dest.col) = Mod32(Operand(2).n)
              /\ (IntOfI32(Last.dest.row) = Operand(1).n) = InI32(Operand(1).n)
              /\ (IntOfI32(Last.dest.col) = Operand(2).n) = InI32(Operand(2).n)

C9_Witness ==
    /\ LineSeen /\ parsed
    /\ Lead.k = "Speed"
    /\ Operand(1).n = Z(TRUE, 0, 0, 0, 1)
    /\ Last = [op |-> "Speed", ticks |-> <<65535, 65535, 65535, 65535>>]

(***************************************************************************)
(* C10: parse terminates on every token stream that ends in Eof.  Every    *)
(* iteration of the loop consumes at least one token or stops, the cursor  *)
(* never passes the place after Eof, an instruction cut short by the end   *)
(* of input ends the parse with InvalidArgument carrying the Eof token,    *)
(* and the loop always has an arm to take until it has returned: so it    *)
(* returns within as many iterations as the stream has tokens.  A          *)
(* successful result has one instruction for each instruction line of the  *)
(* stream (a run of tokens between Newline, Comment, Whitespace and Eof    *)
(* tokens).                                                                *)
(***************************************************************************)
IsWord(tok) == tok.k \notin Trivia \cup {"Eof"}

InstructionLines ==
    Cardinality({j \in 1..Len(tokens) :
                    IsWord(tokens[j]) /\ (j = 1 \/ ~IsWord(tokens[j - 1]))})

=============================================================================
